---- MODULE Spec2Model ----
(***************************************************************************)
(* Verification model of two fragments of the provider:                    *)
(*                                                                         *)
(*  1. the quota-activation wait, limesCCloudProjectQuotaV1WaitForProject  *)
(*     and its refresh function limesCCloudProjectQuotaV1GetQuota, run on  *)
(*     top of resource.StateChangeConf.WaitForStateContext of the          *)
(*     terraform-plugin-sdk (specification Spec);                          *)
(*  2. the expand/flatten helpers of the billing project masterdata        *)
(*     (specification SpecMasterdata).                                     *)
(*                                                                         *)
(* Time is abstracted: the timeout of a wait with timeout > 0 may fire at  *)
(* any moment, so any number of polls may precede it.  Two timing          *)
(* assumptions are made about the polling library: a worker that sleeps    *)
(* between two polls when the timeout fires sees the cancellation before   *)
(* its timer (it issues no further Get), and a Get in flight when the      *)
(* timeout fires completes within the refresh grace period.  The context   *)
(* passed to the wait is assumed not to be cancelled.                      *)
(***************************************************************************)
EXTENDS Integers, Sequences, FiniteSets, TLC

VARIABLES
    timeout,       \* the timeout argument (sign is what the code looks at)
    services,      \* the quota request: the set of requested service types
    pc,            \* caller: "call", "waiting", "grace", "done"
    worker,        \* refresh goroutine: "idle", "sleep", "get", "closed"
    notfoundTick,  \* consecutive polls with a nil result
    lastResp,      \* response of the last projects.Get
    refreshed,     \* what the refresh function returned for lastResp
    result,        \* last Result the refresh goroutine produced
    waitErr,       \* error returned by limesCCloudProjectQuotaV1WaitForProject
    gets,          \* number of projects.Get calls issued
    lateGets,      \* Get calls issued after an active or an error poll
    terminalPoll,  \* a poll has reported "active" or an error
    timedOut,      \* the timeout of the StateChangeConf has fired
    seen404,       \* some poll of a wait with timeout > 0 got a 404
    mode,          \* masterdata: which helper is exercised
    step,          \* masterdata: "input", "flat", "done"
    cert,          \* masterdata: *projects.ExtCertification input
    costObject,    \* masterdata: projects.CostObject input
    raw,           \* masterdata: the value handed to an expand helper
    certOut,       \* masterdata: result of billingProjectExpandExtCertificationV1
    coOut          \* masterdata: result of billingProjectExpandCostObject

waitVars == <<timeout, services, pc, worker, notfoundTick, lastResp, refreshed,
              result, waitErr, gets, lateGets, terminalPoll, timedOut, seen404>>
mdVars == <<mode, step, cert, costObject, raw, certOut, coOut>>
vars == <<timeout, services, pc, worker, notfoundTick, lastResp, refreshed,
          result, waitErr, gets, lateGets, terminalPoll, timedOut, seen404,
          mode, step, cert, costObject, raw, certOut, coOut>>

----------------------------------------------------------------------------
(* Bounds and domains *)

NumServices == 2

ServiceNames ==
    <<"compute", "volumev2", "network", "dns", "sharev2", "object-store", "keppel">>

Services == {ServiceNames[i] : i \in 1..NumServices}

ResourceNames == {"capacity"}

\* the possible resource lists of one service report
ResourceLists == SUBSET ResourceNames

\* quota.Services: a map from some service types to their resource lists
Quotas == UNION {[S -> ResourceLists] : S \in SUBSET Services}

NoQuota == [k \in {} |-> {}]

\* what projects.Get(...).Extract() can return
Responses ==
    {[err |-> "none", quota |-> q] : q \in Quotas}
        \cup {[err |-> "404", quota |-> NoQuota], [err |-> "other", quota |-> NoQuota]}

NoResponse == [err |-> "unset", quota |-> NoQuota]

Timeouts == {-1, 0, 1}

QuotaRequests == SUBSET Services

NoError == "nil"

\* NotFoundChecks of a StateChangeConf that leaves the field unset
DefaultNotFoundChecks == 20

\* NotFoundChecks: 1000, "workaround for default 20 retries, when the resource is nil"
NotFoundChecks == 1000

\* faulty variant: the target state is misspelt
TypoTargetConf ==
    [Target |-> {"ready"}, Pending |-> {}, NotFoundChecks |-> NotFoundChecks]

\* faulty variant: NotFoundChecks is left unset, so the library's default applies
DefaultChecksConf ==
    [Target |-> {"active"}, Pending |-> {}, NotFoundChecks |-> DefaultNotFoundChecks]

\* the StateChangeConf built by limesCCloudProjectQuotaV1WaitForProject
\* (Pending is left unset)
StateChangeConf ==
    [Target |-> {"active"}, Pending |-> {}, NotFoundChecks |-> NotFoundChecks]

----------------------------------------------------------------------------
(* The refresh function *)

NoRefresh == [resNil |-> TRUE, state |-> "", err |-> NoError]

\* faulty variant: a 404 is retried whether or not a timeout is set
GetQuotaRetryAlways(resp, svcs, t) ==
    IF resp.err # "none"
    THEN IF resp.err = "404"
         THEN [resNil |-> TRUE, state |-> "Unable to retrieve", err |-> NoError]
         ELSE [resNil |-> TRUE, state |-> "", err |-> "Unable to retrieve"]
    ELSE IF \E k \in DOMAIN resp.quota : k \in svcs /\ resp.quota[k] = {} /\ t > 0
         THEN [resNil |-> TRUE, state |-> "There are empty resources", err |-> NoError]
         ELSE [resNil |-> FALSE, state |-> "active", err |-> NoError]

\* faulty variant: a 404 is an error like any other
GetQuotaNo404(resp, svcs, t) ==
    IF resp.err # "none"
    THEN [resNil |-> TRUE, state |-> "", err |-> "Unable to retrieve"]
    ELSE IF \E k \in DOMAIN resp.quota : k \in svcs /\ resp.quota[k] = {} /\ t > 0
         THEN [resNil |-> TRUE, state |-> "There are empty resources", err |-> NoError]
         ELSE [resNil |-> FALSE, state |-> "active", err |-> NoError]

\* faulty variant: every Get error is retried when a timeout is set
GetQuotaRetryAnyError(resp, svcs, t) ==
    IF resp.err # "none"
    THEN IF t > 0
         THEN [resNil |-> TRUE, state |-> "Unable to retrieve", err |-> NoError]
         ELSE [resNil |-> TRUE, state |-> "", err |-> "Unable to retrieve"]
    ELSE IF \E k \in DOMAIN resp.quota : k \in svcs /\ resp.quota[k] = {} /\ t > 0
         THEN [resNil |-> TRUE, state |-> "There are empty resources", err |-> NoError]
         ELSE [resNil |-> FALSE, state |-> "active", err |-> NoError]

\* faulty variant: the check for empty resource lists is missing
GetQuotaNoEmptyCheck(resp, svcs, t) ==
    IF resp.err # "none"
    THEN IF resp.err = "404" /\ t > 0
         THEN [resNil |-> TRUE, state |-> "Unable to retrieve", err |-> NoError]
         ELSE [resNil |-> TRUE, state |-> "", err |-> "Unable to retrieve"]
    ELSE [resNil |-> FALSE, state |-> "active", err |-> NoError]

\* the closure returned by limesCCloudProjectQuotaV1GetQuota, applied to the
\* response of its projects.Get: (result is nil?, state, error)
limesCCloudProjectQuotaV1GetQuota(resp, svcs, t) ==
    IF resp.err # "none"
    THEN IF resp.err = "404" /\ t > 0
         THEN [resNil |-> TRUE, state |-> "Unable to retrieve", err |-> NoError]
         ELSE [resNil |-> TRUE, state |-> "", err |-> "Unable to retrieve"]
    ELSE IF \E k \in DOMAIN resp.quota : k \in svcs /\ resp.quota[k] = {} /\ t > 0
         THEN [resNil |-> TRUE, state |-> "There are empty resources", err |-> NoError]
         ELSE [resNil |-> FALSE, state |-> "active", err |-> NoError]

----------------------------------------------------------------------------
(* WaitForStateContext, as configured by the wait *)

ZeroResult == [State |-> "", Error |-> NoError, Done |-> FALSE]

\* one pass of the refresh loop after Refresh returned r with tick earlier
\* consecutive nil results: the Result sent, the new tick, and whether the
\* goroutine goes on ("sleep") or returns ("closed")
RefreshOutcome(conf, r, tick) ==
    IF r.err # NoError
    THEN [result |-> [State |-> r.state, Error |-> r.err, Done |-> FALSE],
          tick |-> tick, worker |-> "closed"]
    ELSE IF r.resNil /\ conf.Target = {}
    THEN [result |-> [State |-> r.state, Error |-> NoError, Done |-> TRUE],
          tick |-> tick, worker |-> "closed"]
    ELSE IF r.resNil
    THEN IF tick + 1 > conf.NotFoundChecks
         THEN [result |-> [State |-> r.state, Error |-> "NotFoundError", Done |-> FALSE],
               tick |-> tick + 1, worker |-> "closed"]
         ELSE [result |-> [State |-> r.state, Error |-> NoError, Done |-> FALSE],
               tick |-> tick + 1, worker |-> "sleep"]
    ELSE IF r.state \in conf.Target
    THEN [result |-> [State |-> r.state, Error |-> NoError, Done |-> TRUE],
          tick |-> 0, worker |-> "closed"]
    ELSE IF r.state \notin conf.Pending /\ conf.Pending # {}
    THEN [result |-> [State |-> r.state, Error |-> "UnexpectedStateError", Done |-> FALSE],
          tick |-> 0, worker |-> "closed"]
    ELSE [result |-> [State |-> r.state, Error |-> NoError, Done |-> FALSE],
          tick |-> 0, worker |-> "sleep"]

\* the error WaitForStateContext returns once the result channel is closed
WaitForStateError(res, inGrace) ==
    IF res.Done THEN NoError
    ELSE IF inGrace THEN "TimeoutError"
    ELSE res.Error

\* faulty variant: the error of the wait is dropped
ReturnValueNoErr(msg, err) ==
    IF msg # "" /\ msg # "active" THEN msg ELSE NoError

\* the tail of limesCCloudProjectQuotaV1WaitForProject: the error it returns
ReturnValue(msg, err) ==
    IF msg # "" /\ msg # "active" THEN msg ELSE err

----------------------------------------------------------------------------
(* Masterdata values (used by SpecMasterdata; idle under Spec) *)

NilCert ==
    [nil |-> TRUE, C5 |-> FALSE, ISO |-> FALSE, PCI |-> FALSE,
     SOC1 |-> FALSE, SOC2 |-> FALSE, SOX |-> FALSE]

ZeroCostObject == [Inherited |-> FALSE, Name |-> "", Type |-> ""]

NilRaw == [kind |-> "nil", isNil |-> TRUE, elems |-> <<>>]

MasterdataIdle ==
    /\ mode = "idle"
    /\ step = "input"
    /\ cert = NilCert
    /\ costObject = ZeroCostObject
    /\ raw = NilRaw
    /\ certOut = NilCert
    /\ coOut = ZeroCostObject

WaitIdle ==
    /\ timeout = 0
    /\ services = {}
    /\ pc = "idle"
    /\ worker = "idle"
    /\ notfoundTick = 0
    /\ lastResp = NoResponse
    /\ refreshed = NoRefresh
    /\ result = ZeroResult
    /\ waitErr = NoError
    /\ gets = 0
    /\ lateGets = 0
    /\ terminalPoll = FALSE
    /\ timedOut = FALSE
    /\ seen404 = FALSE

----------------------------------------------------------------------------
(* The wait: limesCCloudProjectQuotaV1WaitForProject *)

Init ==
    /\ timeout \in Timeouts
    /\ services \in QuotaRequests
    /\ pc = "call"
    /\ worker = "idle"
    /\ notfoundTick = 0
    /\ lastResp = NoResponse
    /\ refreshed = NoRefresh
    /\ result = ZeroResult
    /\ waitErr = NoError
    /\ gets = 0
    /\ lateGets = 0
    /\ terminalPoll = FALSE
    /\ timedOut = FALSE
    /\ seen404 = FALSE
    /\ MasterdataIdle

\* a poll is terminal when it reports "active" or an error
IsTerminal(r) == r.err # NoError \/ r.state = "active"

\* timeout > 0: build the StateChangeConf and start WaitForStateContext; the
\* refresh goroutine starts in its initial Delay
StartWait ==
    /\ pc = "call"
    /\ timeout > 0
    /\ pc' = "waiting"
    /\ worker' = "sleep"
    /\ UNCHANGED <<timeout, services, notfoundTick, lastResp, refreshed, result,
                   waitErr, gets, lateGets, terminalPoll, timedOut, seen404>>
    /\ UNCHANGED mdVars

\* timeout <= 0: call the refresh function once and return
GetOnce(resp) ==
    /\ pc = "call"
    /\ ~(timeout > 0)
    /\ LET r == limesCCloudProjectQuotaV1GetQuota(resp, services, timeout)
       IN /\ lastResp' = resp
          /\ refreshed' = r
          /\ waitErr' = ReturnValue(r.state, r.err)
          /\ terminalPoll' = IsTerminal(r)
    /\ gets' = gets + 1
    /\ pc' = "done"
    /\ UNCHANGED <<timeout, services, worker, notfoundTick, result, lateGets, timedOut,
                   seen404>>
    /\ UNCHANGED mdVars

\* the refresh goroutine's timer fires before any cancellation: it calls
\* Refresh, which issues projects.Get
StartGet ==
    /\ pc = "waiting"
    /\ worker = "sleep"
    /\ worker' = "get"
    /\ gets' = gets + 1
    /\ lateGets' = lateGets + (IF terminalPoll THEN 1 ELSE 0)
    /\ UNCHANGED <<timeout, services, pc, notfoundTick, lastResp, refreshed, result,
                   waitErr, terminalPoll, timedOut, seen404>>
    /\ UNCHANGED mdVars

\* projects.Get returns resp; Refresh returns and the loop body classifies it
GetReturn(resp) ==
    /\ pc \in {"waiting", "grace"}
    /\ worker = "get"
    /\ LET r == limesCCloudProjectQuotaV1GetQuota(resp, services, timeout)
           o == RefreshOutcome(StateChangeConf, r, notfoundTick)
       IN /\ lastResp' = resp
          /\ refreshed' = r
          /\ result' = o.result
          /\ notfoundTick' = o.tick
          /\ worker' = o.worker
          /\ terminalPoll' = (terminalPoll \/ IsTerminal(r))
          /\ seen404' = (seen404 \/ resp.err = "404")
    /\ UNCHANGED <<timeout, services, pc, waitErr, gets, lateGets, timedOut>>
    /\ UNCHANGED mdVars

\* conf.Timeout elapses: the caller closes cancelCh and enters the grace period
Timeout ==
    /\ pc = "waiting"
    /\ pc' = "grace"
    /\ timedOut' = TRUE
    /\ UNCHANGED <<timeout, services, worker, notfoundTick, lastResp, refreshed,
                   result, waitErr, gets, lateGets, terminalPoll, seen404>>
    /\ UNCHANGED mdVars

\* the sleeping refresh goroutine sees cancelCh closed and returns
WorkerCancel ==
    /\ pc = "grace"
    /\ worker = "sleep"
    /\ worker' = "closed"
    /\ UNCHANGED <<timeout, services, pc, notfoundTick, lastResp, refreshed, result,
                   waitErr, gets, lateGets, terminalPoll, timedOut, seen404>>
    /\ UNCHANGED mdVars

\* the caller reads the last Result and the closed channel; WaitForStateContext
\* returns, and limesCCloudProjectQuotaV1WaitForProject returns its error
\* (msg is still empty on this branch)
Return ==
    /\ pc \in {"waiting", "grace"}
    /\ worker = "closed"
    /\ waitErr' = ReturnValue("", WaitForStateError(result, pc = "grace"))
    /\ pc' = "done"
    /\ UNCHANGED <<timeout, services, worker, notfoundTick, lastResp, refreshed,
                   result, gets, lateGets, terminalPoll, timedOut, seen404>>
    /\ UNCHANGED mdVars

Next ==
    \/ StartWait
    \/ \E resp \in Responses : GetOnce(resp)
    \/ StartGet
    \/ \E resp \in Responses : GetReturn(resp)
    \/ Timeout
    \/ WorkerCancel
    \/ Return

Spec == Init /\ [][Next]_vars

----------------------------------------------------------------------------
(* Billing project masterdata: expand / flatten helpers *)

MaxListLen == 2

Strings == {"", "x"}

\* a value of dynamic type bool or string held in a map[string]any
BoolV(b) == [t |-> "bool", b |-> b, s |-> ""]
StrV(str) == [t |-> "string", b |-> FALSE, s |-> str]

NoMap == [k \in {} |-> BoolV(FALSE)]

\* a list element: a map[string]any, or a value of another type
MapElem(m) == [isMap |-> TRUE, m |-> m]
NonMap == [isMap |-> FALSE, m |-> NoMap]

\* a value of type any: untyped nil, a []any, a []map[string]any (possibly a
\* nil slice), or something else
AnyList(es) == [kind |-> "[]any", isNil |-> FALSE, elems |-> es]
MapList(es) == [kind |-> "[]map", isNil |-> FALSE, elems |-> es]
NilMapList == [kind |-> "[]map", isNil |-> TRUE, elems |-> <<>>]
OtherRaw == [kind |-> "other", isNil |-> FALSE, elems |-> <<>>]

\* the list as the schema hands it back to an expand helper: the same
\* elements in a []any (a nil slice reads back as an empty list)
AsAnyList(flat) == AnyList(flat.elems)

CostObjects == [Inherited : BOOLEAN, Name : Strings, Type : Strings]

billingProjectFlattenCostObject(co) ==
    MapList(<<MapElem([k \in {"inherited", "name", "type"} |->
                          CASE k = "inherited" -> BoolV(co.Inherited)
                            [] k = "name" -> StrV(co.Name)
                            [] k = "type" -> StrV(co.Type)])>>)

Min(S) == CHOOSE i \in S : \A j \in S : i <= j

\* faulty variant: name and type are copied although the cost object is inherited
ExpandCostObjectCopyAlways(r) ==
    IF r.kind = "nil" \/ r.kind # "[]any"
    THEN ZeroCostObject
    ELSE LET idx == {i \in 1..Len(r.elems) : r.elems[i].isMap}
         IN IF idx = {}
            THEN ZeroCostObject
            ELSE LET v == r.elems[Min(idx)].m
                 IN [Inherited |-> IF "inherited" \in DOMAIN v
                                   THEN v["inherited"].b ELSE FALSE,
                     Name |-> IF "name" \in DOMAIN v THEN v["name"].s ELSE "",
                     Type |-> IF "type" \in DOMAIN v THEN v["type"].s ELSE ""]

\* the loop returns at the first element that is a map; the type assertions
\* v.(bool) and v.(string) are applied to values the schema has typed
billingProjectExpandCostObject(r) ==
    IF r.kind = "nil" \/ r.kind # "[]any"
    THEN ZeroCostObject
    ELSE LET idx == {i \in 1..Len(r.elems) : r.elems[i].isMap}
         IN IF idx = {}
            THEN ZeroCostObject
            ELSE LET v == r.elems[Min(idx)].m
                     inherited == IF "inherited" \in DOMAIN v
                                  THEN v["inherited"].b ELSE FALSE
                 IN IF inherited
                    THEN [Inherited |-> TRUE, Name |-> "", Type |-> ""]
                    ELSE [Inherited |-> FALSE,
                          Name |-> IF "name" \in DOMAIN v THEN v["name"].s ELSE "",
                          Type |-> IF "type" \in DOMAIN v THEN v["type"].s ELSE ""]

ExtCertifications ==
    [nil : {FALSE}, C5 : BOOLEAN, ISO : BOOLEAN, PCI : BOOLEAN,
     SOC1 : BOOLEAN, SOC2 : BOOLEAN, SOX : BOOLEAN]

CertKeys == {"c5", "iso", "pci", "soc1", "soc2", "sox"}

billingProjectFlattenExtCertificationV1(x) ==
    IF x.nil
    THEN NilMapList
    ELSE MapList(<<MapElem([k \in CertKeys |->
                               CASE k = "c5" -> BoolV(x.C5)
                                 [] k = "iso" -> BoolV(x.ISO)
                                 [] k = "pci" -> BoolV(x.PCI)
                                 [] k = "soc1" -> BoolV(x.SOC1)
                                 [] k = "soc2" -> BoolV(x.SOC2)
                                 [] k = "sox" -> BoolV(x.SOX)])>>)

\* v[key].(bool): the value and ok, FALSE when the key is absent or not a bool
BoolAt(v, key) == key \in DOMAIN v /\ v[key].t = "bool" /\ v[key].b

\* only the first element is looked at; the sixth key is read as "SOX"
billingProjectExpandExtCertificationV1(r) ==
    IF r.kind # "[]any"
    THEN NilCert
    ELSE IF Len(r.elems) = 0
    THEN NilCert
    ELSE IF ~r.elems[1].isMap
    THEN NilCert
    ELSE LET v == r.elems[1].m
         IN [nil |-> FALSE,
             C5 |-> BoolAt(v, "c5"),
             ISO |-> BoolAt(v, "iso"),
             PCI |-> BoolAt(v, "pci"),
             SOC1 |-> BoolAt(v, "soc1"),
             SOC2 |-> BoolAt(v, "soc2"),
             SOX |-> BoolAt(v, "SOX")]

\* inputs

SeqsUpTo(S, n) == UNION {[1..k -> S] : k \in 0..n}

CostObjectMaps ==
    {m \in UNION {[D -> {BoolV(b) : b \in BOOLEAN} \cup {StrV(str) : str \in Strings}] :
                     D \in SUBSET {"inherited", "name", "type"}} :
        \A k \in DOMAIN m : m[k].t = (IF k = "inherited" THEN "bool" ELSE "string")}

RawCostObjects ==
    {NilRaw, OtherRaw}
        \cup {AnyList(es) : es \in SeqsUpTo({NonMap} \cup {MapElem(m) : m \in CostObjectMaps},
                                            MaxListLen)}

AllCerts(b) ==
    [nil |-> FALSE, C5 |-> b, ISO |-> b, PCI |-> b, SOC1 |-> b, SOC2 |-> b, SOX |-> b]

CertElems ==
    {NonMap,
     MapElem(NoMap),
     billingProjectFlattenExtCertificationV1(AllCerts(TRUE)).elems[1],
     billingProjectFlattenExtCertificationV1(AllCerts(FALSE)).elems[1],
     MapElem([k \in {"c5", "SOX"} |-> IF k = "c5" THEN StrV("x") ELSE BoolV(TRUE)])}

RawCerts ==
    {NilRaw, OtherRaw, NilMapList} \cup {AnyList(es) : es \in SeqsUpTo(CertElems, MaxListLen)}

InitMasterdata ==
    /\ WaitIdle
    /\ step = "input"
    /\ certOut = NilCert
    /\ coOut = ZeroCostObject
    /\ \/ /\ mode = "cert"
          /\ cert \in ExtCertifications \cup {NilCert}
          /\ costObject = ZeroCostObject
          /\ raw = NilRaw
       \/ /\ mode = "costObject"
          /\ cert = NilCert
          /\ costObject \in CostObjects
          /\ raw = NilRaw
       \/ /\ mode = "rawCert"
          /\ cert = NilCert
          /\ costObject = ZeroCostObject
          /\ raw \in RawCerts
       \/ /\ mode = "rawCostObject"
          /\ cert = NilCert
          /\ costObject = ZeroCostObject
          /\ raw \in RawCostObjects

FlattenExtCertification ==
    /\ mode = "cert"
    /\ step = "input"
    /\ raw' = AsAnyList(billingProjectFlattenExtCertificationV1(cert))
    /\ step' = "flat"
    /\ UNCHANGED <<mode, cert, costObject, certOut, coOut>>
    /\ UNCHANGED waitVars

ExpandExtCertification ==
    /\ \/ mode = "cert" /\ step = "flat"
       \/ mode = "rawCert" /\ step = "input"
    /\ certOut' = billingProjectExpandExtCertificationV1(raw)
    /\ step' = "done"
    /\ UNCHANGED <<mode, cert, costObject, raw, coOut>>
    /\ UNCHANGED waitVars

FlattenCostObject ==
    /\ mode = "costObject"
    /\ step = "input"
    /\ raw' = AsAnyList(billingProjectFlattenCostObject(costObject))
    /\ step' = "flat"
    /\ UNCHANGED <<mode, cert, costObject, certOut, coOut>>
    /\ UNCHANGED waitVars

ExpandCostObject ==
    /\ \/ mode = "costObject" /\ step = "flat"
       \/ mode = "rawCostObject" /\ step = "input"
    /\ coOut' = billingProjectExpandCostObject(raw)
    /\ step' = "done"
    /\ UNCHANGED <<mode, cert, costObject, raw, certOut>>
    /\ UNCHANGED waitVars

NextMasterdata ==
    \/ FlattenExtCertification
    \/ ExpandExtCertification
    \/ FlattenCostObject
    \/ ExpandCostObject

SpecMasterdata == InitMasterdata /\ [][NextMasterdata]_vars

----------------------------------------------------------------------------
(* Properties of the wait (specification Spec) *)

\* the last poll was pending: Refresh returned no error and a state other
\* than "active"
PendingPoll ==
    /\ lastResp # NoResponse
    /\ refreshed.err = NoError
    /\ refreshed.state # "active"

\* the last response holds a requested service with an empty resource list
EmptyRequested ==
    /\ lastResp.err = "none"
    /\ \E k \in DOMAIN lastResp.quota : k \in services /\ lastResp.quota[k] = {}

\* after a pending poll the wait goes on: the poll's Result carries no error,
\* the refresh goroutine ends only by the timeout's cancellation, and the
\* wait returns only the timeout's error
GoesOn ==
    /\ result.Error = NoError
    /\ worker \in {"sleep", "get", "closed"}
    /\ (worker = "closed" => timedOut)
    /\ (pc = "done" => timedOut /\ waitErr = "TimeoutError")

\* the pending poll was consecutive nil result number NotFoundChecks + 1: the
\* wait fails with the library's not-found error (or the timeout's)
NotFoundExceeded ==
    /\ notfoundTick = NotFoundChecks + 1
    /\ result.Error = "NotFoundError"
    /\ worker = "closed"
    /\ (pc = "done" => waitErr = (IF timedOut THEN "TimeoutError" ELSE "NotFoundError"))

\* an active poll ends the wait with success
ActiveSucceeds ==
    /\ result.Done
    /\ worker = "closed"
    /\ (pc = "done" => waitErr = NoError)

\* C1 as stated: with timeout > 0 a poll that gets a 404 is pending (nil
\* error, state other than "active"), the wait does not fail because of it and
\* polling continues; a later active poll makes the wait return nil.
C1_Original ==
    /\ (timeout > 0 /\ lastResp.err = "404") =>
           (refreshed.err = NoError /\ refreshed.state # "active" /\ GoesOn)
    /\ (timeout > 0 /\ seen404 /\ refreshed.state = "active") => ActiveSucceeds

\* C1 amended: with timeout > 0 a poll that gets a 404 is pending (nil error,
\* state other than "active"); unless it is consecutive pending poll number
\* 1001 (NotFoundChecks exceeded, which fails the wait with a not-found error)
\* the wait does not fail because of it and polling continues; a later active
\* poll makes the wait return nil.
C1_Pending404 ==
    /\ (timeout > 0 /\ lastResp.err = "404") =>
           /\ refreshed.err = NoError
           /\ refreshed.state # "active"
           /\ IF notfoundTick <= NotFoundChecks THEN GoesOn ELSE NotFoundExceeded
    /\ (timeout > 0 /\ seen404 /\ refreshed.state = "active") => ActiveSucceeds

\* a 404 poll was followed by an active poll and the wait returned nil
C1_Witness ==
    /\ timeout > 0
    /\ seen404
    /\ refreshed.state = "active"
    /\ pc = "done"
    /\ waitErr = NoError
    /\ ~timedOut

\* C2 as stated: with timeout > 0 a poll whose response has a requested
\* service with an empty resource list is pending, the wait never returns
\* success on it, and polling continues until a later poll is active or
\* errors or the timeout expires.
C2_Original ==
    (timeout > 0 /\ EmptyRequested) =>
        /\ refreshed.err = NoError
        /\ refreshed.state # "active"
        /\ ~(pc = "done" /\ waitErr = NoError)
        /\ GoesOn

\* C2 amended: as stated, except that polling also ends, with a not-found
\* error, when the poll is consecutive pending poll number 1001.
C2_PendingEmpty ==
    (timeout > 0 /\ EmptyRequested) =>
        /\ refreshed.err = NoError
        /\ refreshed.state # "active"
        /\ ~(pc = "done" /\ waitErr = NoError)
        /\ IF notfoundTick <= NotFoundChecks THEN GoesOn ELSE NotFoundExceeded

\* the next Get is in flight after a poll that found an empty resource list
C2_Witness ==
    /\ timeout > 0
    /\ EmptyRequested
    /\ worker = "get"
    /\ pc = "waiting"
    /\ notfoundTick > 1

\* C3: a Get error other than 404 is terminal for every timeout: the wait
\* returns a non-nil error and no Get is issued after that poll, however many
\* pending polls preceded it.
C3_OtherErrorTerminal ==
    /\ [](lastResp.err = "other" =>
             /\ refreshed.err # NoError
             /\ worker \in {"idle", "closed"}
             /\ (pc = "done" => waitErr # NoError))
    /\ [][lastResp.err = "other" => gets' = gets /\ lastResp' = lastResp]_vars

\* the wait failed on such an error after several pending polls, before any
\* timeout
C3_Witness ==
    /\ timeout > 0
    /\ lastResp.err = "other"
    /\ gets > 3
    /\ ~timedOut
    /\ pc = "done"
    /\ waitErr = "Unable to retrieve"

\* C4: with timeout <= 0 the wait never retries: exactly one Get, and a 404
\* on it is not pending (the refresh function returns an error) and makes the
\* wait return a non-nil error.
C4_NoTimeoutNoRetry ==
    ~(timeout > 0) =>
        /\ gets <= 1
        /\ worker = "idle"
        /\ pc \in {"call", "done"}
        /\ (pc = "done" <=> gets = 1)
        /\ (lastResp.err = "404" =>
               refreshed.err # NoError /\ pc = "done" /\ waitErr # NoError)

\* a wait without timeout has returned an error on a 404
C4_Witness ==
    /\ ~(timeout > 0)
    /\ lastResp.err = "404"
    /\ pc = "done"
    /\ gets = 1
    /\ waitErr = "Unable to retrieve"

\* C5: with timeout > 0 the wait returns nil only if its last poll reported
\* "active"; when every poll up to the timeout was pending it returns an error.
C5_NilOnlyIfActive ==
    (timeout > 0 /\ pc = "done") =>
        /\ (waitErr = NoError => lastResp # NoResponse /\ refreshed.state = "active")
        /\ ((timedOut /\ (lastResp = NoResponse \/ PendingPoll)) => waitErr # NoError)

\* the wait timed out after pending polls only and returned the timeout error
C5_Witness ==
    /\ timeout > 0
    /\ pc = "done"
    /\ timedOut
    /\ PendingPoll
    /\ gets > 1
    /\ waitErr = "TimeoutError"

\* C6 as stated: whenever the wait returns nil, for any timeout, every
\* requested service is present in the last retrieved quota with a non-empty
\* resource list.
C6_Original ==
    (pc = "done" /\ waitErr = NoError) =>
        /\ lastResp.err = "none"
        /\ \A k \in services : k \in DOMAIN lastResp.quota /\ lastResp.quota[k] # {}

\* C6 amended: whenever the wait returns nil the last Get succeeded and, if
\* timeout > 0, every requested service that is present in the last retrieved
\* quota has a non-empty resource list (a requested service missing from the
\* quota does not prevent success; with timeout <= 0 empty lists do not either).
C6_ActivePopulated ==
    (pc = "done" /\ waitErr = NoError) =>
        /\ lastResp.err = "none"
        /\ refreshed.state = "active"
        /\ (timeout > 0 =>
               \A k \in services :
                   k \in DOMAIN lastResp.quota => lastResp.quota[k] # {})

\* a wait with a timeout succeeded on a quota that holds all requested services
C6_Witness ==
    /\ timeout > 0
    /\ pc = "done"
    /\ waitErr = NoError
    /\ services = Services
    /\ DOMAIN lastResp.quota = Services
    /\ gets > 1

\* the state of the wait as a state machine
WaitState ==
    IF lastResp = NoResponse /\ pc # "done" THEN "start"
    ELSE IF lastResp # NoResponse /\ refreshed.state = "active" THEN "active"
    ELSE IF refreshed.err # NoError \/ result.Error # NoError \/ pc = "done" THEN "error"
    ELSE "pending"

WaitTransitions ==
    {<<"start", "pending">>, <<"start", "active">>, <<"start", "error">>,
     <<"pending", "pending">>, <<"pending", "active">>, <<"pending", "error">>}

\* C7: the wait moves only pending -> pending, pending -> active and
\* any -> error; "active" and error are terminal: the first active poll ends
\* the wait with success, no Get follows an active or an error poll, and the
\* wait never leaves active.
C7_StateMachine ==
    /\ [](/\ lateGets = 0
          /\ terminalPoll => (worker \in {"idle", "closed"} /\ IsTerminal(refreshed))
          /\ (lastResp # NoResponse /\ refreshed.state = "active") =>
                 /\ timeout > 0 => result.Done
                 /\ pc = "done" => waitErr = NoError
          /\ (pc = "done" /\ WaitState = "error") => waitErr # NoError)
    /\ [][/\ WaitState' # WaitState => <<WaitState, WaitState'>> \in WaitTransitions
          /\ WaitState \in {"active", "error"} => gets' = gets]_vars

\* an active poll after pending polls ended the wait with success
C7_Witness ==
    /\ timeout > 0
    /\ WaitState = "active"
    /\ gets > 2
    /\ pc = "done"
    /\ waitErr = NoError

\* C8 as stated: with timeout > 0 a run of more than 20 and at most 1000
\* consecutive pending polls does not fail the wait, so pending polls lead to
\* failure only through the timeout.
C8_Original ==
    (timeout > 0 /\ PendingPoll) =>
        /\ (notfoundTick > DefaultNotFoundChecks /\ notfoundTick <= NotFoundChecks)
               => GoesOn
        /\ (pc = "done" /\ waitErr # NoError) => timedOut

\* C8 amended: with timeout > 0 a run of more than 20 and at most 1000
\* consecutive pending polls does not fail the wait; pending polls lead to
\* failure only through the timeout or through pending poll number 1001 in a
\* row, which fails the wait with a not-found error.
C8_NotFoundChecks ==
    (timeout > 0 /\ PendingPoll) =>
        /\ notfoundTick >= 1
        /\ notfoundTick <= NotFoundChecks + 1
        /\ (notfoundTick > DefaultNotFoundChecks /\ notfoundTick <= NotFoundChecks)
               => GoesOn
        /\ (pc = "done" /\ waitErr # NoError) =>
               (timedOut \/ (notfoundTick = NotFoundChecks + 1 /\ waitErr = "NotFoundError"))

\* 1000 consecutive pending polls and the wait still polls
C8_Witness ==
    /\ timeout > 0
    /\ PendingPoll
    /\ notfoundTick = NotFoundChecks
    /\ pc = "waiting"
    /\ worker = "get"

----------------------------------------------------------------------------
(* Properties of the masterdata helpers (specification SpecMasterdata) *)

\* C9 as stated: expanding the flattened list of a non-nil ExtCertification
\* gives it back in all six flags; flattening nil yields nil and expanding nil
\* or an empty list yields nil.
C9_RoundTrip ==
    /\ (mode = "cert" /\ step = "done") => certOut = cert
    /\ billingProjectFlattenExtCertificationV1(NilCert).isNil
    /\ (mode = "rawCert" /\ step = "done" /\ (raw.kind = "nil" \/ Len(raw.elems) = 0))
           => certOut.nil

\* the first element of the list that is a map, as the claim describes it
FirstMap(r) ==
    LET i == CHOOSE i \in 1..Len(r.elems) :
                 r.elems[i].isMap /\ \A j \in 1..(i - 1) : ~r.elems[j].isMap
    IN r.elems[i].m

HasMap(r) == r.kind = "[]any" /\ \E i \in 1..Len(r.elems) : r.elems[i].isMap

Field(m, k) == IF k \in DOMAIN m THEN m[k].s ELSE ""

====
